---- MODULE Spec2Model ----
(***************************************************************************)
(* Model of the question-extraction pipeline of fastapi_app/app.py:        *)
(* POST /extract (extract_questions), the generative step                  *)
(* (extract_questions_from_markdown), the persistence step                 *)
(* (store_questions_in_db), the storage session (get_db_session) and the   *)
(* deferred scratch-directory cleanup (cleanup_temp_dir).                  *)
(*                                                                         *)
(* Python values are modelled as records [t, s, n]: None, a string (a      *)
(* sequence of tokens, the token " " being a whitespace character) or an   *)
(* integer.  str(), strip() and truthiness are computed as Python does.    *)
(***************************************************************************)
EXTENDS Integers, Sequences, FiniteSets, TLC

\* ---------------------------------------------------------------- bounds
MaxPages == 2
MaxCands == 2

\* ------------------------------------------------------- Python values
None == [t |-> "none", s |-> <<>>, n |-> 0]

S(seq) == [t |-> "str", s |-> seq, n |-> 0]

I(k) == [t |-> "int", s |-> <<>>, n |-> k]

SP == " "

NL == "\n"

IsSpace(ch) == ch \in {SP, NL}

RECURSIVE LStrip(_)
LStrip(s) == IF s # <<>> /\ IsSpace(Head(s)) THEN LStrip(Tail(s)) ELSE s

RECURSIVE RStrip(_)
RStrip(s) ==
    IF s # <<>> /\ IsSpace(s[Len(s)])
    THEN RStrip(SubSeq(s, 1, Len(s) - 1))
    ELSE s

\* str.strip() on the token sequence of a string
Strip(s) == RStrip(LStrip(s))

\* str(v) followed by .strip(), as a token sequence
StrStrip(v) ==
    CASE v.t = "str" -> Strip(v.s)
      [] v.t = "int" -> <<ToString(v.n)>>
      [] OTHER -> <<"None">>

\* Python truthiness: None, "" and 0 are falsy
Truthy(v) ==
    CASE v.t = "str" -> v.s # <<>>
      [] v.t = "int" -> v.n # 0
      [] OTHER -> FALSE

\* `x.strip() if isinstance(x, str) and x.strip() else None`
StrOrNone(v) ==
    IF v.t = "str" /\ Strip(v.s) # <<>> THEN S(Strip(v.s)) ELSE None

\* `str(x).strip() if x and str(x).strip() else None`
TextOrNone(v) ==
    IF Truthy(v) /\ StrStrip(v) # <<>> THEN S(StrStrip(v)) ELSE None

\* ------------------------------------------------ enumerations (app.py)
allowed_question_types ==
    { <<"Descriptive">>, <<"Multiple Choice">>, <<"True/False">>,
      <<"Fill in the blank">>, <<"Short Answer">>, <<"Comprehension">> }

allowed_difficulties == { <<"Easy">>, <<"Medium">>, <<"Hard">> }

\* ------------------------------------------------------ configuration
\* config.default_uploaded_by (DEFAULT_UPLOADED_BY, default "system") and
\* config.default_updated_by (DEFAULT_UPDATED_BY, default None)
default_uploaded_by == S(<<"system">>)

default_updated_by == None

\* variant: only a missing question is rejected, a blank one is not
QuestionTextErrorNoneOnly(q) ==
    IF q.question = None
    THEN "Missing question text for database insert."
    ELSE ""

\* ------------------------------------- store_questions_in_db, per field
\* lines 434-438: the reason the candidate is rejected for, "" when it is not
QuestionTextError(q) ==
    IF q.question = None \/ StrStrip(q.question) = <<>>
    THEN "Missing question text for database insert."
    ELSE ""

\* lines 440-443
QuestionType(raw) ==
    LET question_type == IF Truthy(raw) THEN S(StrStrip(raw)) ELSE None
    IN  IF Truthy(question_type) /\ question_type.s \notin allowed_question_types
        THEN None
        ELSE question_type

\* lines 445-448
QuestionDifficulty(raw) ==
    LET question_difficulty == IF Truthy(raw) THEN S(StrStrip(raw)) ELSE None
    IN  IF Truthy(question_difficulty)
           /\ question_difficulty.s \notin allowed_difficulties
        THEN None
        ELSE question_difficulty

\* lines 450-452
PageNumberText(raw) ==
    IF raw # None /\ StrStrip(raw) # <<>> THEN S(StrStrip(raw)) ELSE None

\* lines 456 and 466-468
LessonTitleError(q) ==
    IF TextOrNone(q.lesson_title) = None
    THEN "Missing lesson name for database insert."
    ELSE ""

\* lines 380-383, 385-386, 388-402: the request-level values of every row
SubjectNameValue(subject_name) == TextOrNone(subject_name)

UploadedByValue(uploaded_by) ==
    IF Truthy(uploaded_by) /\ StrStrip(uploaded_by) # <<>>
    THEN S(StrStrip(uploaded_by))
    ELSE IF Truthy(default_uploaded_by) /\ StrStrip(default_uploaded_by) # <<>>
         THEN S(StrStrip(default_uploaded_by))
         ELSE None

UpdatedByValue(updated_by) ==
    IF updated_by # None /\ StrStrip(updated_by) # <<>>
    THEN S(StrStrip(updated_by))
    ELSE IF Truthy(default_updated_by) /\ StrStrip(default_updated_by) # <<>>
         THEN S(StrStrip(default_updated_by))
         ELSE None

\* models.py, lines 87-102: the fields of the Question table model (of those
\* the pipeline passes); option1..option6 are not among them
QuestionColumns ==
    { "id", "file_name", "subject_name", "lesson_title", "class_name",
      "specialization", "question", "question_type", "question_difficulty",
      "page_number", "answer_steps", "uploaded_by", "updated_by" }

\* lines 438-464 and 471-494: the keyword arguments of Question(...) for
\* candidate q (option1 stands for option1..option6, six copies of one line)
QuestionArguments(q, id, file_name, ctx) ==
    [ id |-> id,
      file_name |-> file_name,
      subject_name |-> SubjectNameValue(ctx.subject_name),
      lesson_title |-> TextOrNone(q.lesson_title),
      class_name |-> TextOrNone(ctx.class_name),
      specialization |-> TextOrNone(ctx.specialization),
      question |-> S(StrStrip(q.question)),
      question_type |-> QuestionType(q.question_type),
      question_difficulty |-> QuestionDifficulty(q.question_difficulty),
      page_number |-> PageNumberText(q.page_number),
      option1 |-> TextOrNone(q.option1),
      answer_steps |-> TextOrNone(q.answer_steps),
      uploaded_by |-> UploadedByValue(ctx.uploaded_by),
      updated_by |-> UpdatedByValue(ctx.updated_by) ]

\* lines 471-496: the row added to the session.  The table model keeps the
\* arguments that are fields of it and ignores the others.
NewQuestion(q, id, file_name, ctx) ==
    LET arguments == QuestionArguments(q, id, file_name, ctx)
    IN  [ column \in QuestionColumns \cap DOMAIN arguments |-> arguments[column] ]

\* lines 414-496: the loop over the batch.  Each accepted candidate is added
\* to the session; the first rejected one raises and ends the loop, leaving
\* the rows added before it pending in the session.
RECURSIVE AddQuestions(_, _, _, _, _)
AddQuestions(questions, id, file_name, ctx, added) ==
    IF questions = <<>>
    THEN [detail |-> "", added |-> added]
    ELSE LET q == Head(questions)
             e == IF QuestionTextError(q) # ""
                  THEN QuestionTextError(q)
                  ELSE LessonTitleError(q)
         IN  IF e # ""
             THEN [detail |-> e, added |-> added]
             ELSE AddQuestions(Tail(questions), id + 1, file_name, ctx,
                               Append(added, NewQuestion(q, id, file_name, ctx)))

\* lines 373-396: the checks made before the loop ("" when they pass)
StorePrecheck(file_name, ctx) ==
    IF file_name = <<>>
    THEN [status_code |-> 500, detail |-> "File name is missing for database insert."]
    ELSE IF SubjectNameValue(ctx.subject_name) = None
    THEN [status_code |-> 400, detail |-> "subject_name is required."]
    ELSE IF UploadedByValue(ctx.uploaded_by) = None
    THEN [status_code |-> 400, detail |-> "uploaded_by is required."]
    ELSE [status_code |-> 200, detail |-> ""]

\* variant: the lesson_title is not defaulted to the subject name
NormalizeQuestionNoDefault(question, page_number, ctx) ==
    [ question EXCEPT
        !.page_number =
            IF page_number # None THEN S(<<ToString(page_number.n)>>) ELSE None,
        !.answer_steps =
            IF question.answer_steps # None
            THEN (IF StrStrip(question.answer_steps) # <<>>
                  THEN S(StrStrip(question.answer_steps))
                  ELSE None)
            ELSE None ]

\* variant: only a missing lesson_title is defaulted, a blank one is kept
NormalizeQuestionNoneOnly(question, page_number, ctx) ==
    [ question EXCEPT
        !.page_number =
            IF page_number # None THEN S(<<ToString(page_number.n)>>) ELSE None,
        !.lesson_title =
            IF question.lesson_title = None
            THEN ctx.subject_name
            ELSE S(StrStrip(question.lesson_title)),
        !.answer_steps =
            IF question.answer_steps # None
            THEN (IF StrStrip(question.answer_steps) # <<>>
                  THEN S(StrStrip(question.answer_steps))
                  ELSE None)
            ELSE None ]

\* variant: the page number of the candidate is kept when it has one
NormalizeQuestionKeepPage(question, page_number, ctx) ==
    [ question EXCEPT
        !.page_number =
            IF question.page_number # None THEN question.page_number
            ELSE IF page_number # None THEN S(<<ToString(page_number.n)>>) ELSE None,
        !.lesson_title =
            IF question.lesson_title = None \/ StrStrip(question.lesson_title) = <<>>
            THEN ctx.subject_name
            ELSE S(StrStrip(question.lesson_title)),
        !.answer_steps =
            IF question.answer_steps # None
            THEN (IF StrStrip(question.answer_steps) # <<>>
                  THEN S(StrStrip(question.answer_steps))
                  ELSE None)
            ELSE None ]

\* --------------------------- extract_questions, sanitize-and-enrich loop
\* lines 793-815 for one candidate of a page numbered page_number
NormalizeQuestion(question, page_number, ctx) ==
    [ question EXCEPT
        !.page_number =
            IF page_number # None THEN S(<<ToString(page_number.n)>>) ELSE None,
        !.lesson_title =
            IF question.lesson_title = None \/ StrStrip(question.lesson_title) = <<>>
            THEN ctx.subject_name
            ELSE S(StrStrip(question.lesson_title)),
        !.answer_steps =
            IF question.answer_steps # None
            THEN (IF StrStrip(question.answer_steps) # <<>>
                  THEN S(StrStrip(question.answer_steps))
                  ELSE None)
            ELSE None ]

SanitizeQuestions(extracted_questions, page_number, ctx) ==
    [ i \in 1..Len(extracted_questions) |->
        NormalizeQuestion(extracted_questions[i], page_number, ctx) ]

\* --------------------------------------------- candidates (untrusted)
\* What q.get(key) yields for each key the pipeline reads; a missing key and
\* a null both read as None.
Candidate(question, lesson_title, question_type, question_difficulty, option1) ==
    [ question |-> question,
      lesson_title |-> lesson_title,
      question_type |-> question_type,
      question_difficulty |-> question_difficulty,
      page_number |-> S(<<"9">>),
      option1 |-> option1,
      answer_steps |-> option1 ]

\* The JSON objects a generative response of the model can hold, by name
CandidateOf ==
    [ name \in {"{ok}", "{essay}", "{odd}", "{noq}", "{wsq}"} |->
        CASE name = "{ok}" ->
               Candidate(S(<<SP, "Q", SP>>), S(<<"L", SP>>),
                         S(<<SP, "Multiple Choice">>), S(<<"Easy">>),
                         S(<<SP, "A", SP>>))
          [] name = "{essay}" ->
               Candidate(S(<<"Q">>), None, S(<<"Essay">>), I(7), None)
          [] name = "{odd}" ->
               Candidate(I(0), S(<<SP>>), None, S(<<SP, SP>>), S(<<SP>>))
          [] name = "{noq}" ->
               Candidate(None, S(<<"L">>), S(<<"True/False">>), S(<<"Hard">>), None)
          [] OTHER ->
               Candidate(S(<<SP>>), S(<<"L">>), S(<<SP>>), None, None) ]

ObjectNames == DOMAIN CandidateOf

\* ------------------------- extract_questions_from_markdown, lines 335-352
\* A response text is a sequence of tokens: single characters, and JSON
\* objects (one token each, named in ObjectNames, many characters long).
FenceLen == 3

JsonFenceLen == 7

\* one backquote character
TICK == "bq"

BROKEN == "{..."

IsPrefix(p, s) == Len(p) <= Len(s) /\ SubSeq(s, 1, Len(p)) = p

\* s[n:] where the first n tokens of s are single characters
RECURSIVE DropFirst(_, _)
DropFirst(s, n) ==
    IF n = 0 \/ s = <<>> THEN s
    ELSE IF Head(s) \in ObjectNames THEN <<BROKEN>> \o Tail(s)
    ELSE DropFirst(Tail(s), n - 1)

\* s[:-n]: cutting into an object leaves its truncated text
RECURSIVE DropLast(_, _)
DropLast(s, n) ==
    IF n = 0 \/ s = <<>> THEN s
    ELSE IF s[Len(s)] \in ObjectNames
         THEN SubSeq(s, 1, Len(s) - 1) \o <<BROKEN>>
         ELSE DropLast(SubSeq(s, 1, Len(s) - 1), n - 1)

\* variant: the last three characters are removed only when they are a
\* closing fence marker
StripFenceChecked(content) ==
    LET result_text == Strip(content)
        closed == /\ Len(result_text) >= FenceLen
                  /\ SubSeq(result_text, Len(result_text) - FenceLen + 1,
                            Len(result_text)) = <<TICK, TICK, TICK>>
        cut == IF closed THEN FenceLen ELSE 0
    IN  IF IsPrefix(<<TICK, TICK, TICK, "j", "s", "o", "n">>, result_text)
        THEN Strip(DropLast(DropFirst(result_text, JsonFenceLen), cut))
        ELSE IF IsPrefix(<<TICK, TICK, TICK>>, result_text)
        THEN Strip(DropLast(DropFirst(result_text, FenceLen), cut))
        ELSE result_text

\* variant: only a fence tagged `json` is removed
StripFenceJsonOnly(content) ==
    LET result_text == Strip(content)
    IN  IF IsPrefix(<<TICK, TICK, TICK, "j", "s", "o", "n">>, result_text)
        THEN Strip(DropLast(DropFirst(result_text, JsonFenceLen), FenceLen))
        ELSE result_text

\* lines 335-341
StripFence(content) ==
    LET result_text == Strip(content)
    IN  IF IsPrefix(<<TICK, TICK, TICK, "j", "s", "o", "n">>, result_text)
        THEN Strip(DropLast(DropFirst(result_text, JsonFenceLen), FenceLen))
        ELSE IF IsPrefix(<<TICK, TICK, TICK>>, result_text)
        THEN Strip(DropLast(DropFirst(result_text, FenceLen), FenceLen))
        ELSE result_text

NoSpace(s) == SelectSeq(s, LAMBDA ch : ~IsSpace(ch))

IsJsonValue(tok) == tok \in ObjectNames \/ tok = "7"

\* json.loads on a token sequence: "list", "value" (valid JSON, not a list)
\* or "invalid"
JsonKind(text) ==
    LET t == NoSpace(text)
        inner == SubSeq(t, 2, Len(t) - 1)
    IN  IF Len(t) = 1 /\ IsJsonValue(t[1]) THEN "value"
        ELSE IF /\ Len(t) >= 2
                /\ t[1] = "["
                /\ t[Len(t)] = "]"
                /\ (inner = <<>> \/ Len(inner) % 2 = 1)
                /\ \A i \in 1..Len(inner) :
                      IF i % 2 = 1 THEN IsJsonValue(inner[i]) ELSE inner[i] = ","
        THEN "list"
        ELSE "invalid"

JsonElements(text) ==
    LET t == NoSpace(text)
        inner == SubSeq(t, 2, Len(t) - 1)
    IN  SelectSeq(inner, IsJsonValue)

\* variant: the elements that are no objects are dropped, the others kept
ParseQuestionsDropping(content) ==
    LET result_text == StripFence(content)
        kind == JsonKind(result_text)
        elements == JsonElements(result_text)
        objects == SelectSeq(elements, LAMBDA e : e \in ObjectNames)
    IN  IF kind = "invalid"
        THEN [detail |-> "OpenAI extraction failed: JSONDecodeError", questions |-> <<>>]
        ELSE IF kind # "list"
        THEN [detail |-> "OpenAI extraction failed: Expected a list of questions in JSON array.",
              questions |-> <<>>]
        ELSE [detail |-> "",
              questions |-> [ i \in 1..Len(objects) |-> CandidateOf[objects[i]] ]]

\* lines 343-357: the questions returned, or the detail of the HTTPException
ParseQuestions(content) ==
    LET result_text == StripFence(content)
        kind == JsonKind(result_text)
        elements == JsonElements(result_text)
    IN  IF kind = "invalid"
        THEN [detail |-> "OpenAI extraction failed: JSONDecodeError", questions |-> <<>>]
        ELSE IF kind # "list"
        THEN [detail |-> "OpenAI extraction failed: Expected a list of questions in JSON array.",
              questions |-> <<>>]
        ELSE IF \E i \in 1..Len(elements) : elements[i] \notin ObjectNames
        THEN [detail |-> "OpenAI extraction failed: Each question entry must be a JSON object.",
              questions |-> <<>>]
        ELSE [detail |-> "",
              questions |-> [ i \in 1..Len(elements) |-> CandidateOf[elements[i]] ]]

\* ------------------------------------ extract_questions, lines 662-718
\* file.filename.lower().endswith(".pdf"); the last token is the extension
Lower(tok) == IF tok = ".PDF" THEN ".pdf" ELSE tok

IsPdfName(filename) ==
    filename # <<>> /\ Lower(filename[Len(filename)]) = ".pdf"

FieldNames ==
    <<"subject_name", "class_name", "specialization", "uploaded_by", "updated_by">>

NoFields == [ k \in {FieldNames[i] : i \in 1..Len(FieldNames)} |-> None ]

\* The metadata form field: absent ("none"), text json.loads rejects
\* ("badjson"), JSON that is no object ("nonobject"), or a JSON object
NoMetadata == [kind |-> "none", obj |-> NoFields]

BadJsonMetadata == [kind |-> "badjson", obj |-> NoFields]

NonObjectMetadata == [kind |-> "nonobject", obj |-> NoFields]

ObjectMetadata(obj) == [kind |-> "object", obj |-> obj]

\* `form if form is not None else metadata_values.get(key)` raises
\* AttributeError when metadata_values has no .get
GetRaises(req, key) == req[key] = None /\ req.metadata.kind = "nonobject"

\* variant: a blank form field gives way to the metadata value
RawValueUnlessBlank(req, key) ==
    IF req[key] # None /\ Strip(req[key].s) # <<>>
    THEN req[key]
    ELSE req.metadata.obj[key]

RawValue(req, key) ==
    IF req[key] # None THEN req[key] ELSE req.metadata.obj[key]

ResolvedValue(req, key) == StrOrNone(RawValue(req, key))

InternalError ==
    [status_code |-> 500, detail |-> "Extraction failed: AttributeError"]

\* variant: the check of uploaded_by is left out
ValidateRequestNoUploader(req) ==
    IF req.metadata.kind = "badjson"
    THEN [status_code |-> 400, detail |-> "Invalid metadata JSON"]
    ELSE IF GetRaises(req, "subject_name") THEN InternalError
    ELSE IF ResolvedValue(req, "subject_name") = None
    THEN [status_code |-> 400, detail |-> "subject_name is required."]
    ELSE IF GetRaises(req, "class_name") THEN InternalError
    ELSE IF GetRaises(req, "specialization") THEN InternalError
    ELSE IF GetRaises(req, "uploaded_by") THEN InternalError
    ELSE IF GetRaises(req, "updated_by") THEN InternalError
    ELSE [status_code |-> 200, detail |-> ""]

\* lines 668-718 with the handlers of lines 862-869: the exception the
\* request ends with (status_code 200 when validation passes)
ValidateRequest(req) ==
    IF req.metadata.kind = "badjson"
    THEN [status_code |-> 400, detail |-> "Invalid metadata JSON"]
    ELSE IF GetRaises(req, "subject_name") THEN InternalError
    ELSE IF ResolvedValue(req, "subject_name") = None
    THEN [status_code |-> 400, detail |-> "subject_name is required."]
    ELSE IF GetRaises(req, "class_name") THEN InternalError
    ELSE IF GetRaises(req, "specialization") THEN InternalError
    ELSE IF GetRaises(req, "uploaded_by") THEN InternalError
    ELSE IF ResolvedValue(req, "uploaded_by") = None
    THEN [status_code |-> 400, detail |-> "uploaded_by is required."]
    ELSE IF GetRaises(req, "updated_by") THEN InternalError
    ELSE [status_code |-> 200, detail |-> ""]

RequestContext(req) ==
    [ k \in {FieldNames[i] : i \in 1..Len(FieldNames)} |-> ResolvedValue(req, k) ]

Request(filename, metadata, subject_name, uploaded_by) ==
    [ filename |-> filename,
      metadata |-> metadata,
      subject_name |-> subject_name,
      class_name |-> None,
      specialization |-> None,
      uploaded_by |-> uploaded_by,
      updated_by |-> None ]

\* lines 643-648: the form fields are declared `Optional[str] = Form(None)`.
\* The handler gets the declared default, None, for a form field that is
\* not sent and for one that is sent empty, and the text sent otherwise.
FormArgument(value) == IF value = S(<<>>) THEN None ELSE value

HandlerArguments(req) ==
    [ req EXCEPT !.subject_name = FormArgument(@),
                 !.class_name = FormArgument(@),
                 !.specialization = FormArgument(@),
                 !.uploaded_by = FormArgument(@),
                 !.updated_by = FormArgument(@) ]

\* The requests the model submits
Requests ==
    { Request(<<"doc", ".txt">>, NoMetadata, S(<<"Math">>), S(<<"u1">>)),
      Request(<<"doc", ".PDF">>, NoMetadata, S(<<SP, "Math">>), S(<<"u1", SP>>)),
      Request(<<"doc", ".PDF">>,
              ObjectMetadata([NoFields EXCEPT !.subject_name = S(<<"Math">>),
                                              !.uploaded_by = S(<<"u1">>)]),
              None, None),
      Request(<<"doc", ".pdf">>, BadJsonMetadata, S(<<"Math">>), S(<<"u1">>)),
      Request(<<"doc", ".pdf">>, NonObjectMetadata, S(<<"Math">>), None),
      Request(<<"doc", ".pdf">>, NoMetadata, None, S(<<"u1">>)),
      Request(<<"doc", ".pdf">>, NoMetadata, S(<<"Math">>), S(<<SP>>)) }

\* --------------------- extract_markdown_from_pdf_azure, lines 185-235
Missing == [t |-> "missing", s |-> <<>>, n |-> 0]

\* full_content[start : start + length]
Slice(full_content, start, length) ==
    SubSeq(full_content,
           (IF start < Len(full_content) THEN start ELSE Len(full_content)) + 1,
           IF start + length < Len(full_content)
           THEN start + length
           ELSE Len(full_content))

\* lines 206-215
RECURSIVE SpanFragments(_, _)
SpanFragments(spans, full_content) ==
    IF spans = <<>> THEN <<>>
    ELSE LET span == Head(spans)
         IN  (IF span.offset = None \/ span.length = None
              THEN <<>>
              ELSE Slice(full_content, span.offset.n, span.length.n))
             \o SpanFragments(Tail(spans), full_content)

\* lines 189-197 and 218: the paragraphs with a bounding region on the page
ParagraphsOfPage(paragraphs, page_number) ==
    IF page_number = None THEN <<>>
    ELSE SelectSeq(paragraphs,
                   LAMBDA para : \E r \in 1..Len(para.regions) :
                                     para.regions[r] = page_number)

\* lines 219-221
RECURSIVE JoinParagraphs(_)
JoinParagraphs(paragraphs) ==
    IF paragraphs = <<>> THEN <<>>
    ELSE IF ~Truthy(Head(paragraphs).content) THEN JoinParagraphs(Tail(paragraphs))
    ELSE LET rest == JoinParagraphs(Tail(paragraphs))
         IN  Head(paragraphs).content.s \o (IF rest = <<>> THEN <<>> ELSE <<NL>> \o rest)

\* variant: the paragraphs of the page are tried before its spans
PageDataParagraphsFirst(result, idx) ==
    LET page == result.pages[idx + 1]
        page_number == IF page.page_number = Missing THEN I(idx + 1) ELSE page.page_number
        direct == IF Truthy(page.content) THEN page.content.s ELSE <<>>
        fromParagraphs ==
            IF direct = <<>>
            THEN JoinParagraphs(ParagraphsOfPage(result.paragraphs, page_number))
            ELSE direct
        fromSpans ==
            IF fromParagraphs = <<>> /\ page.spans # <<>> /\ result.content # <<>>
            THEN SpanFragments(page.spans, result.content)
            ELSE fromParagraphs
    IN  [page_number |-> page_number, content |-> Strip(fromSpans)]

\* variant: the pages are numbered by their position in the result
PageDataRenumbered(result, idx) ==
    LET page == result.pages[idx + 1]
        page_number == I(idx + 1)
        direct == IF Truthy(page.content) THEN page.content.s ELSE <<>>
        fromSpans ==
            IF direct = <<>> /\ page.spans # <<>> /\ result.content # <<>>
            THEN SpanFragments(page.spans, result.content)
            ELSE direct
        fromParagraphs ==
            IF fromSpans = <<>>
            THEN JoinParagraphs(ParagraphsOfPage(result.paragraphs, page_number))
            ELSE fromSpans
    IN  [page_number |-> page_number, content |-> Strip(fromParagraphs)]

\* lines 202-228: one entry of pages_data (idx counts from 0)
PageData(result, idx) ==
    LET page == result.pages[idx + 1]
        page_number == IF page.page_number = Missing THEN I(idx + 1) ELSE page.page_number
        direct == IF Truthy(page.content) THEN page.content.s ELSE <<>>
        fromSpans ==
            IF direct = <<>> /\ page.spans # <<>> /\ result.content # <<>>
            THEN SpanFragments(page.spans, result.content)
            ELSE direct
        fromParagraphs ==
            IF fromSpans = <<>>
            THEN JoinParagraphs(ParagraphsOfPage(result.paragraphs, page_number))
            ELSE fromSpans
    IN  [page_number |-> page_number, content |-> Strip(fromParagraphs)]

\* lines 200-235
PagesData(result) == [ i \in 1..Len(result.pages) |-> PageData(result, i - 1) ]

\* The layout-service results the model draws.  The service numbers the
\* pages 2, none, 5, ...; a page is of one of four kinds: its text is given
\* directly, is blank, is found through its spans, or is found through the
\* paragraphs located on it (the blank page carries no page_number
\* attribute).  Further kinds: a direct text together with spans ("both"),
\* an empty direct text with spans ("emptytext"), spans without an offset
\* ("nospan").
ServicePageNumber(idx) ==
    CASE idx = 0 -> I(2)
      [] idx = 1 -> None
      [] OTHER -> I(idx + 3)

LayoutPage(kind, idx) ==
    CASE kind = "text" ->
           [page_number |-> ServicePageNumber(idx), content |-> S(<<SP, "T">>),
            spans |-> <<>>]
      [] kind = "blank" ->
           [page_number |-> Missing, content |-> S(<<SP>>), spans |-> <<>>]
      [] kind = "spans" ->
           [page_number |-> ServicePageNumber(idx), content |-> None,
            spans |-> <<[offset |-> I(1), length |-> I(1)],
                        [offset |-> None, length |-> I(1)]>>]
      [] kind = "both" ->
           [page_number |-> ServicePageNumber(idx), content |-> S(<<"T", SP>>),
            spans |-> <<[offset |-> I(0), length |-> I(1)]>>]
      [] kind = "emptytext" ->
           [page_number |-> ServicePageNumber(idx), content |-> S(<<>>),
            spans |-> <<[offset |-> I(0), length |-> I(1)],
                        [offset |-> I(1), length |-> I(5)]>>]
      [] kind = "nospan" ->
           [page_number |-> ServicePageNumber(idx), content |-> None,
            spans |-> <<[offset |-> None, length |-> I(1)],
                        [offset |-> I(1), length |-> None]>>]
      [] OTHER ->
           [page_number |-> ServicePageNumber(idx), content |-> None, spans |-> <<>>]

PageKinds == {"text", "blank", "spans", "para"}

MorePageKinds == PageKinds \cup {"both", "emptytext", "nospan"}

LayoutResult(kinds) ==
    [ content |-> <<"U", "T">>,
      pages |-> [ i \in 1..Len(kinds) |-> LayoutPage(kinds[i], i - 1) ],
      paragraphs |-> << [content |-> S(<<"T">>), regions |-> <<I(2)>>],
                        [content |-> S(<<>>), regions |-> <<I(2), I(5)>>] >> ]

LayoutResults ==
    { LayoutResult(kinds) : kinds \in UNION { [1..n -> PageKinds] : n \in 0..MaxPages } }

\* The generative replies the model draws: an array of at most MaxCands
\* objects, bare or fenced, and malformed texts
Join(names) ==
    [ i \in 1..(2 * Len(names) - 1) |->
        IF i % 2 = 1 THEN names[(i + 1) \div 2] ELSE "," ]

ArrayText(names) ==
    <<"[">> \o (IF names = <<>> THEN <<>> ELSE Join(names)) \o <<"]">>

JsonFence == <<TICK, TICK, TICK, "j", "s", "o", "n", NL>>

BareFence == <<TICK, TICK, TICK, NL>>

ClosingFence == <<NL, TICK, TICK, TICK>>

\* The arrays the model submits list their objects in this order (an object
\* may repeat); good and bad candidates alternate in it, so that a bad
\* candidate is met both before and after good ones
ListingOrder == <<"{ok}", "{noq}", "{essay}", "{wsq}", "{odd}">>

NameSeqs ==
    UNION { { [i \in 1..n |-> ListingOrder[f[i]]] :
                f \in { g \in [1..n -> 1..Len(ListingOrder)] :
                          \A i \in 1..n, j \in 1..n : i <= j => g[i] <= g[j] } } :
            n \in 0..MaxCands }

\* An array between an opening fence marker, tagged `json` or bare, and a
\* closing fence marker
OpeningFences ==
    { JsonFence, BareFence, <<TICK, TICK, TICK, "j", "s", "o", "n">>,
      <<TICK, TICK, TICK>>, <<SP>> \o JsonFence }

ClosingFences == { ClosingFence, <<TICK, TICK, TICK>>, ClosingFence \o <<NL>> }

Fenced(opening, names, closing) == opening \o ArrayText(names) \o closing

FencedReplies ==
    { Fenced(opening, ns, closing) :
        opening \in OpeningFences, ns \in NameSeqs, closing \in ClosingFences }

\* An array after an opening fence marker, without a closing one
Unterminated(opening, names) == opening \o ArrayText(names)

UnterminatedReplies ==
    { Unterminated(opening, ns) : opening \in OpeningFences, ns \in NameSeqs }
    \cup { Unterminated(opening, <<"{ok}">>) \o <<NL>> : opening \in OpeningFences }

\* Replies that are no array of objects: a fence left open, a lone object, a
\* number, an array holding a number, an array left open, blank text
OtherReplies ==
    { JsonFence \o ArrayText(<<"{ok}">>),
      <<"{ok}">>,
      <<"7">>,
      <<"[", "{ok}", ",", "7", "]">>,
      <<"[", "{ok}">>,
      <<SP>> }

ReplyTexts ==
    { ArrayText(ns) : ns \in NameSeqs }
    \cup { JsonFence \o ArrayText(ns) \o ClosingFence : ns \in NameSeqs }
    \cup { BareFence \o ArrayText(ns) \o ClosingFence : ns \in NameSeqs }
    \cup OtherReplies

\* ------------------------------------------------------------- state
VARIABLES
    client,               \* config.client is set
    openai_client,        \* config.openai_client is set
    pc,                   \* where the request is
    filename,            \* file.filename of the upload
    temp_dir,             \* "none", "exists" or "removed"
    background_tasks,     \* tasks added to the injected BackgroundTasks
    attached_tasks,       \* tasks carried by the response that was sent
    ctx,                  \* subject_name_value .. updated_by_value
    pages,                \* extraction_result["pages"]
    total_pages,
    idx,                  \* position of the for loop in pages (1-based)
    pages_attempted,
    pages_skipped,
    total_questions,
    page_summaries,
    extracted_questions,
    sanitized_questions,
    db,                   \* committed rows of the questions table
    pending,              \* rows added to the session, not yet committed
    next_id,              \* stands for uuid.uuid4(): a fresh id per row
    http_exc,             \* the exception the endpoint raised
    response,             \* what the client received
    calls,                \* the stages run so far, with their outcome
    run,                  \* the number of the request being served
    scenario              \* the inputs of a run whose inputs are fixed ahead

vars ==
    << client, openai_client, pc, filename, temp_dir, background_tasks,
       attached_tasks, ctx, pages, total_pages, idx, pages_attempted,
       pages_skipped, total_questions, page_summaries, extracted_questions,
       sanitized_questions, db, pending, next_id, http_exc, response, calls,
       run, scenario >>

NoExc == [status_code |-> 0, detail |-> ""]

NoSummary ==
    [ total_pages_detected |-> 0, pages_with_content |-> 0, pages_skipped |-> 0,
      questions_stored |-> 0, pages |-> <<>> ]

NoResponse == [status_code |-> 0, status |-> "", detail |-> "", summary |-> NoSummary]

\* A row stored by an earlier request
OldRow ==
    NewQuestion(CandidateOf["{ok}"], 0, <<"old", ".pdf">>,
                [NoFields EXCEPT !.subject_name = S(<<"Math">>),
                                 !.uploaded_by = S(<<"u0">>)])

\* No inputs fixed ahead: every step draws its own
NoScenario ==
    [ request |-> Request(<<>>, NoMetadata, None, None), kinds |-> <<>>,
      reply |-> <<>> ]

\* The service before its first request
Start ==
    /\ client \in BOOLEAN
    /\ openai_client \in BOOLEAN
    /\ pc = "idle"
    /\ filename = <<>>
    /\ temp_dir = "none"
    /\ background_tasks = <<>>
    /\ attached_tasks = <<>>
    /\ ctx = NoFields
    /\ pages = <<>>
    /\ total_pages = 0
    /\ idx = 0
    /\ pages_attempted = 0
    /\ pages_skipped = 0
    /\ total_questions = 0
    /\ page_summaries = <<>>
    /\ extracted_questions = <<>>
    /\ sanitized_questions = <<>>
    /\ db = <<OldRow>>
    /\ pending = <<>>
    /\ next_id = 1
    /\ http_exc = NoExc
    /\ response = NoResponse
    /\ calls = <<>>
    /\ run = 1

Init == Start /\ scenario = NoScenario

\* ------------------------------------------------- the storage session
\* variant: a pending row that repeats a stored row, but for its id, is
\* skipped as a duplicate
SessionCommitNoDuplicates(dbv, pend) ==
    [ db |-> dbv \o SelectSeq(pend,
                              LAMBDA row :
                                  ~\E i \in 1..Len(dbv) :
                                      [dbv[i] EXCEPT !.id = 0] = [row EXCEPT !.id = 0]),
      pending |-> <<>> ]

\* session.commit(): the pending rows become committed rows
SessionCommit(dbv, pend) == [db |-> dbv \o pend, pending |-> <<>>]

\* variant: the rollback also removes what the request committed before
SessionRollbackAll(dbv, pend) ==
    [db |-> SelectSeq(dbv, LAMBDA row : row.id = 0), pending |-> <<>>]

\* session.rollback(): the pending rows are discarded
SessionRollback(dbv, pend) == [db |-> dbv, pending |-> <<>>]

\* variant: closing the session flushes and commits what is pending
SessionCloseFlush(dbv, pend) == [db |-> dbv \o pend, pending |-> <<>>]

\* leaving `with Session(engine) as session`: the session is closed and
\* what it had not committed is discarded
SessionClose(dbv, pend) == [db |-> dbv, pending |-> <<>>]

\* store_questions_in_db, lines 373-504
StoreQuestions(dbv, pend, questions, file_name, cx, id, commit_ok) ==
    IF questions = <<>>
    THEN [exc |-> NoExc, db |-> dbv, pending |-> pend, next_id |-> id]
    ELSE IF StorePrecheck(file_name, cx).detail # ""
    THEN [exc |-> StorePrecheck(file_name, cx), db |-> dbv, pending |-> pend,
          next_id |-> id]
    ELSE LET r == AddQuestions(questions, id, file_name, cx, <<>>)
             session == pend \o r.added
         IN  IF r.detail # ""
             THEN [exc |-> [status_code |-> 500, detail |-> r.detail],
                   db |-> dbv, pending |-> session,
                   next_id |-> id + Len(r.added)]
             ELSE IF commit_ok
             THEN [exc |-> NoExc,
                   db |-> SessionCommit(dbv, session).db,
                   pending |-> SessionCommit(dbv, session).pending,
                   next_id |-> id + Len(r.added)]
             ELSE [exc |-> [status_code |-> 500,
                            detail |-> "Failed to persist questions to database."],
                   db |-> SessionRollback(dbv, session).db,
                   pending |-> SessionRollback(dbv, session).pending,
                   next_id |-> id + Len(r.added)]

\* variant: a failure inside the page loop is recorded and the loop goes on
RaiseAndGoOn(exc) ==
    /\ http_exc' = exc
    /\ background_tasks' = Append(background_tasks, "cleanup_temp_dir")
    /\ pc' = IF pc \in {"openai", "store"} THEN "loop" ELSE "raised"

\* ------------------------------------------------------------ actions
\* lines 862-869: the handlers add the cleanup task and raise
Raise(exc) ==
    /\ http_exc' = exc
    /\ background_tasks' = Append(background_tasks, "cleanup_temp_dir")
    /\ pc' = "raised"

\* An entry of the log of stages: n is the number of candidates a generative
\* reply held, bad the number of those without a question text
Event(op, page, ok, n, bad) ==
    [op |-> op, page |-> page, ok |-> ok, n |-> n, bad |-> bad]

PageSummary(page_number, questions_extracted, status, error) ==
    [ page_number |-> page_number, questions_extracted |-> questions_extracted,
      status |-> status, error |-> error ]

\* variant: only the pages that have text are counted
TotalPagesWithText(page_count, pages_data) ==
    Cardinality({ i \in 1..Len(pages_data) : pages_data[i].content # <<>> })

\* line 732
TotalPages(page_count, pages_data) ==
    IF page_count # 0 THEN page_count ELSE Len(pages_data)

\* variant: a page without questions is reported as skipped
ProcessedStatusOrSkipped(questions_count) ==
    IF questions_count # 0 THEN "processed" ELSE "skipped_empty_content"

\* line 836
ProcessedStatus(questions_count) ==
    IF questions_count # 0 THEN "processed" ELSE "processed_no_questions"

\* lines 662-723: the upload is checked, the scratch directory is made,
\* metadata and form fields are resolved and the upload is saved
Receive(req) ==
    /\ pc = "idle"
    /\ filename' = req.filename
    /\ IF ~IsPdfName(req.filename)
       THEN /\ http_exc' = [status_code |-> 400,
                            detail |-> "Only PDF files are supported."]
            /\ pc' = "raised"
            /\ UNCHANGED << temp_dir, ctx, background_tasks >>
       ELSE /\ temp_dir' = "exists"
            /\ IF ValidateRequest(HandlerArguments(req)).status_code # 200
               THEN /\ Raise(ValidateRequest(HandlerArguments(req)))
                    /\ UNCHANGED ctx
               ELSE /\ ctx' = RequestContext(HandlerArguments(req))
                    /\ pc' = "layout"
                    /\ UNCHANGED << http_exc, background_tasks >>
    /\ UNCHANGED << run, scenario,
                    client, openai_client, attached_tasks, pages,
                    total_pages, idx, pages_attempted, pages_skipped,
                    total_questions, page_summaries, extracted_questions,
                    sanitized_questions, db, pending, next_id, response,
                    calls >>

\* variant: a result without pages is not refused
LayoutNoPagesCheck(result, call_ok) ==
    /\ pc = "layout"
    /\ IF ~client
       THEN /\ Raise([status_code |-> 503,
                      detail |-> "Azure Document Intelligence client not configured."])
            /\ UNCHANGED << pages, total_pages, idx, calls >>
       ELSE IF ~call_ok
       THEN /\ Raise([status_code |-> 500, detail |-> "Azure extraction failed"])
            /\ calls' = Append(calls, Event("layout", 0, FALSE, 0, 0))
            /\ UNCHANGED << pages, total_pages, idx >>
       ELSE /\ pages' = PagesData(result)
            /\ total_pages' = TotalPages(Len(result.pages), PagesData(result))
            /\ idx' = 1
            /\ pc' = "loop"
            /\ calls' = Append(calls, Event("layout", 0, TRUE, 0, 0))
            /\ UNCHANGED << http_exc, background_tasks >>
    /\ UNCHANGED << run, scenario,
                    client, openai_client, filename, temp_dir, attached_tasks,
                    ctx, pages_attempted, pages_skipped, total_questions,
                    page_summaries, extracted_questions, sanitized_questions,
                    db, pending, next_id, response >>

\* lines 725-738 with extract_markdown_from_pdf_azure (lines 166-239)
Layout(result, call_ok) ==
    /\ pc = "layout"
    /\ IF ~client
       THEN /\ Raise([status_code |-> 503,
                      detail |-> "Azure Document Intelligence client not configured."])
            /\ UNCHANGED << pages, total_pages, idx, calls >>
       ELSE IF ~call_ok
       THEN /\ Raise([status_code |-> 500, detail |-> "Azure extraction failed"])
            /\ calls' = Append(calls, Event("layout", 0, FALSE, 0, 0))
            /\ UNCHANGED << pages, total_pages, idx >>
       ELSE IF PagesData(result) = <<>>
       THEN /\ Raise([status_code |-> 500,
                      detail |-> "Azure Document Intelligence did not return any pages."])
            /\ calls' = Append(calls, Event("layout", 0, TRUE, 0, 0))
            /\ UNCHANGED << pages, total_pages, idx >>
       ELSE /\ pages' = PagesData(result)
            /\ total_pages' = TotalPages(Len(result.pages), PagesData(result))
            /\ idx' = 1
            /\ pc' = "loop"
            /\ calls' = Append(calls, Event("layout", 0, TRUE, 0, 0))
            /\ UNCHANGED << http_exc, background_tasks >>
    /\ UNCHANGED << run, scenario,
                    client, openai_client, filename, temp_dir, attached_tasks,
                    ctx, pages_attempted, pages_skipped, total_questions,
                    page_summaries, extracted_questions, sanitized_questions,
                    db, pending, next_id, response >>

\* variant: the skipped page is recorded but the `continue` is missing, so
\* the page is handed to the generative step all the same
SkipPageNoContinue ==
    /\ pc = "loop"
    /\ idx <= Len(pages)
    /\ Strip(pages[idx].content) = <<>>
    /\ pages_skipped' = pages_skipped + 1
    /\ page_summaries' =
         Append(page_summaries,
                PageSummary(pages[idx].page_number, 0, "skipped_empty_content", ""))
    /\ pages_attempted' = pages_attempted + 1
    /\ pc' = "openai"
    /\ UNCHANGED << run, scenario,
                    client, openai_client, filename, temp_dir,
                    background_tasks, attached_tasks, ctx, pages,
                    total_pages, idx, total_questions,
                    extracted_questions, sanitized_questions, db, pending,
                    next_id, http_exc, response, calls >>

\* variant: the configuration of the generative service is checked for
\* every page, before the page is looked at
SkipPageChecksClient ==
    /\ pc = "loop"
    /\ idx <= Len(pages)
    /\ Strip(pages[idx].content) = <<>>
    /\ IF ~openai_client
       THEN /\ Raise([status_code |-> 503, detail |-> "OpenAI client not configured."])
            /\ UNCHANGED << pages_skipped, page_summaries, idx >>
       ELSE /\ pages_skipped' = pages_skipped + 1
            /\ page_summaries' =
                 Append(page_summaries,
                        PageSummary(pages[idx].page_number, 0,
                                    "skipped_empty_content", ""))
            /\ idx' = idx + 1
            /\ UNCHANGED << pc, http_exc, background_tasks >>
    /\ UNCHANGED << run, scenario,
                    client, openai_client, filename, temp_dir,
                    attached_tasks, ctx, pages,
                    total_pages, pages_attempted, total_questions,
                    extracted_questions, sanitized_questions, db, pending,
                    next_id, response, calls >>

\* lines 741-754: a page without text is skipped
SkipPage ==
    /\ pc = "loop"
    /\ idx <= Len(pages)
    /\ Strip(pages[idx].content) = <<>>
    /\ pages_skipped' = pages_skipped + 1
    /\ page_summaries' =
         Append(page_summaries,
                PageSummary(pages[idx].page_number, 0, "skipped_empty_content", ""))
    /\ idx' = idx + 1
    /\ UNCHANGED << run, scenario,
                    client, openai_client, pc, filename, temp_dir,
                    background_tasks, attached_tasks, ctx, pages,
                    total_pages, pages_attempted, total_questions,
                    extracted_questions, sanitized_questions, db, pending,
                    next_id, http_exc, response, calls >>

\* lines 741-764: a page with text is handed to the generative step
AttemptPage ==
    /\ pc = "loop"
    /\ idx <= Len(pages)
    /\ Strip(pages[idx].content) # <<>>
    /\ pages_attempted' = pages_attempted + 1
    /\ pc' = "openai"
    /\ UNCHANGED << run, scenario,
                    client, openai_client, filename, temp_dir,
                    background_tasks, attached_tasks, ctx, pages,
                    total_pages, idx, pages_skipped, total_questions,
                    page_summaries, extracted_questions, sanitized_questions,
                    db, pending, next_id, http_exc, response, calls >>

\* the candidates of a reply that carry no question text
Blank(questions) ==
    Cardinality({ i \in 1..Len(questions) :
                    \/ questions[i].question = None
                    \/ (questions[i].question.t = "str"
                        /\ Strip(questions[i].question.s) = <<>>) })

\* lines 246-250 and 354-357: what extract_questions_from_markdown raises
\* (kind "" when it returns).  Whatever is raised inside its try block
\* leaves it as an HTTPException.
GenerativeError(configured, api_ok, parsed) ==
    IF ~configured
    THEN [kind |-> "HTTPException", status_code |-> 503,
          detail |-> "OpenAI client not configured."]
    ELSE IF ~api_ok
    THEN [kind |-> "HTTPException", status_code |-> 500,
          detail |-> "OpenAI extraction failed: APIError"]
    ELSE IF parsed.detail # ""
    THEN [kind |-> "HTTPException", status_code |-> 500, detail |-> parsed.detail]
    ELSE [kind |-> "", status_code |-> 0, detail |-> ""]

\* str(page_number)
PageText(page_number) ==
    IF page_number.t = "int" THEN ToString(page_number.n) ELSE "None"

\* line 784
PageDetail(page_number, cause) ==
    "OpenAI extraction failed for page " \o PageText(page_number) \o ": " \o cause

\* lines 765-784: the two handlers around the generative step.  An
\* HTTPException is recorded and raised again as it is; any other exception
\* is recorded and replaced by one whose detail names the page.
PageFailure(raised, page_number) ==
    IF raised.kind = "HTTPException"
    THEN [ error |-> raised.detail,
           exc |-> [status_code |-> raised.status_code, detail |-> raised.detail] ]
    ELSE [ error |-> raised.detail,
           exc |-> [status_code |-> 500,
                    detail |-> PageDetail(page_number, raised.detail)] ]

\* lines 763-784 with extract_questions_from_markdown (lines 244-357)
OpenAIReturns(api_ok, content) ==
    /\ pc = "openai"
    /\ LET parsed == ParseQuestions(content)
           raised == GenerativeError(openai_client, api_ok, parsed)
           failure == PageFailure(raised, pages[idx].page_number)
           exc == IF raised.kind = "" THEN NoExc ELSE failure.exc
       IN  IF exc # NoExc
           THEN /\ page_summaries' =
                     Append(page_summaries,
                            PageSummary(pages[idx].page_number, 0, "failed",
                                        failure.error))
                /\ Raise(exc)
                /\ calls' = Append(calls, Event("openai", idx, FALSE, 0, 0))
                /\ UNCHANGED extracted_questions
           ELSE /\ extracted_questions' = parsed.questions
                /\ pc' = "sanitize"
                /\ calls' = Append(calls, Event("openai", idx, TRUE,
                                                Len(parsed.questions),
                                                Blank(parsed.questions)))
                /\ UNCHANGED << page_summaries, http_exc, background_tasks >>
    /\ UNCHANGED << run, scenario,
                    client, openai_client, filename, temp_dir, attached_tasks,
                    ctx, pages, total_pages, idx, pages_attempted,
                    pages_skipped, total_questions, sanitized_questions, db,
                    pending, next_id, response >>

\* variant: the batch is not stored before the loop takes the next page
SanitizeThenNextPage ==
    /\ pc = "sanitize"
    /\ sanitized_questions' =
         SanitizeQuestions(extracted_questions, pages[idx].page_number, ctx)
    /\ calls' = Append(calls, Event("sanitize", idx, TRUE, 0, 0))
    /\ pc' = "loop"
    /\ idx' = idx + 1
    /\ UNCHANGED << run, scenario,
                    client, openai_client, filename, temp_dir,
                    background_tasks, attached_tasks, ctx, pages,
                    total_pages, pages_attempted, pages_skipped,
                    total_questions, page_summaries, extracted_questions, db,
                    pending, next_id, http_exc, response >>

\* lines 786-815
Sanitize ==
    /\ pc = "sanitize"
    /\ sanitized_questions' =
         SanitizeQuestions(extracted_questions, pages[idx].page_number, ctx)
    /\ calls' = Append(calls, Event("sanitize", idx, TRUE, 0, 0))
    /\ pc' = "store"
    /\ UNCHANGED << run, scenario,
                    client, openai_client, filename, temp_dir,
                    background_tasks, attached_tasks, ctx, pages,
                    total_pages, idx, pages_attempted, pages_skipped,
                    total_questions, page_summaries, extracted_questions, db,
                    pending, next_id, http_exc, response >>

\* the events of one call of store_questions_in_db: the per-candidate checks
\* and, when they pass on a non-empty batch, the commit
StoreEvents(r, page) ==
    IF r.exc = NoExc
    THEN <<Event("check", page, TRUE, 0, 0)>>
         \o (IF sanitized_questions # <<>> THEN <<Event("commit", page, TRUE, 0, 0)>> ELSE <<>>)
    ELSE IF r.exc.detail = "Failed to persist questions to database."
    THEN <<Event("check", page, TRUE, 0, 0), Event("commit", page, FALSE, 0, 0)>>
    ELSE <<Event("check", page, FALSE, 0, 0)>>

\* lines 817-838 with store_questions_in_db (lines 362-504)
Store(commit_ok) ==
    /\ pc = "store"
    /\ LET r == StoreQuestions(db, pending, sanitized_questions, filename,
                               ctx, next_id, commit_ok)
           questions_count == Len(sanitized_questions)
       IN  /\ db' = r.db
           /\ pending' = r.pending
           /\ next_id' = r.next_id
           /\ calls' = calls \o StoreEvents(r, idx)
           /\ IF r.exc # NoExc
              THEN /\ Raise(r.exc)
                   /\ UNCHANGED << total_questions, page_summaries, idx >>
              ELSE /\ total_questions' = total_questions + questions_count
                   /\ page_summaries' =
                        Append(page_summaries,
                               PageSummary(pages[idx].page_number, questions_count,
                                           ProcessedStatus(questions_count), ""))
                   /\ idx' = idx + 1
                   /\ pc' = "loop"
                   /\ UNCHANGED << http_exc, background_tasks >>
    /\ UNCHANGED << run, scenario,
                    client, openai_client, filename, temp_dir, attached_tasks,
                    ctx, pages, total_pages, pages_attempted, pages_skipped,
                    extracted_questions, sanitized_questions, response >>

\* lines 840-860: every page is done, the success response is built
Finish ==
    /\ pc = "loop"
    /\ idx > Len(pages)
    /\ response' =
         [ status_code |-> 200,
           status |-> "success",
           detail |-> IF total_questions # 0
                      THEN "Processed pages; stored questions."
                      ELSE "Processed pages but no questions were extracted.",
           summary |-> [ total_pages_detected |-> total_pages,
                         pages_with_content |-> pages_attempted,
                         pages_skipped |-> pages_skipped,
                         questions_stored |-> total_questions,
                         pages |-> page_summaries ] ]
    /\ background_tasks' = Append(background_tasks, "cleanup_temp_dir")
    /\ pc' = "returned"
    /\ UNCHANGED << run, scenario,
                    client, openai_client, filename, temp_dir, attached_tasks,
                    ctx, pages, total_pages, idx, pages_attempted,
                    pages_skipped, total_questions, page_summaries,
                    extracted_questions, sanitized_questions, db, pending,
                    next_id, http_exc, calls >>

\* lines 154-161
CleanupTempDir(dir) == IF dir = "exists" THEN "removed" ELSE dir

\* The framework answers the client.  A response returned by the endpoint
\* carries the injected background tasks, which run once it is sent; a raised
\* HTTPException is answered by the exception handler's own response, which
\* carries none.  The request's session is then closed (lines 46-48).
Respond ==
    /\ pc \in {"returned", "raised"}
    /\ attached_tasks' = IF pc = "returned" THEN background_tasks ELSE <<>>
    /\ response' =
         IF pc = "raised"
         THEN [ status_code |-> http_exc.status_code, status |-> "error",
                detail |-> http_exc.detail, summary |-> NoSummary ]
         ELSE response
    /\ temp_dir' = IF attached_tasks' # <<>> THEN CleanupTempDir(temp_dir) ELSE temp_dir
    /\ db' = SessionClose(db, pending).db
    /\ pending' = SessionClose(db, pending).pending
    /\ pc' = "done"
    /\ UNCHANGED << run, scenario,
                    client, openai_client, filename, background_tasks, ctx,
                    pages, total_pages, idx, pages_attempted, pages_skipped,
                    total_questions, page_summaries, extracted_questions,
                    sanitized_questions, next_id, http_exc, calls >>

Next ==
    \/ \E req \in Requests : Receive(req)
    \/ \E result \in LayoutResults, call_ok \in BOOLEAN : Layout(result, call_ok)
    \/ SkipPage
    \/ AttemptPage
    \/ \E api_ok \in BOOLEAN, content \in ReplyTexts : OpenAIReturns(api_ok, content)
    \/ Sanitize
    \/ \E commit_ok \in BOOLEAN : Store(commit_ok)
    \/ Finish
    \/ Respond

Spec == Init /\ [][Next]_vars

\* Every step of a request is eventually taken: the event loop runs the
\* handler, the framework answers and closes the session
FairSpec == Spec /\ WF_vars(Next)

\* ------------------------------------ runs over a wider set of candidates
\* A request the endpoint accepts
AcceptedRequest ==
    Request(<<"doc", ".pdf">>, NoMetadata, S(<<SP, "Math">>), S(<<"u1">>))

\* Candidates over every kind of value of the fields the pipeline reads:
\* missing or null, blank, padded text, text outside an enumeration, a number
FieldCandidates ==
    { Candidate(question, lesson_title, question_type, question_difficulty, option1) :
        question \in {S(<<SP, "Q", SP>>), None},
        lesson_title \in {None, S(<<SP>>), S(<<"L", SP>>), I(0)},
        question_type \in {None, S(<<SP>>), S(<<"Essay">>),
                           S(<<SP, "Multiple Choice">>), I(7)},
        question_difficulty \in {None, S(<<"Easy">>), S(<<"Extreme">>)},
        option1 \in {None, S(<<SP>>), S(<<SP, "A", SP>>)} }

\* The arrays of at most MaxCands objects that hold one of them, at any
\* position, among copies of the object {ok}
FieldBatches ==
    UNION { UNION { { [i \in 1..n |-> IF i = j THEN c ELSE CandidateOf["{ok}"]] :
                        c \in FieldCandidates } :
                    j \in 1..n } :
            n \in 1..MaxCands }

\* A run over a one-page document, at the point where the generative step
\* has returned the parsed array for the page (line 764)
FieldInit ==
    /\ client = TRUE
    /\ openai_client = TRUE
    /\ pc = "sanitize"
    /\ filename = AcceptedRequest.filename
    /\ temp_dir = "exists"
    /\ background_tasks = <<>>
    /\ attached_tasks = <<>>
    /\ ctx = RequestContext(AcceptedRequest)
    /\ pages = PagesData(LayoutResult(<<"text">>))
    /\ total_pages = 1
    /\ idx = 1
    /\ pages_attempted = 1
    /\ pages_skipped = 0
    /\ total_questions = 0
    /\ page_summaries = <<>>
    /\ extracted_questions \in FieldBatches
    /\ sanitized_questions = <<>>
    /\ db = <<OldRow>>
    /\ pending = <<>>
    /\ next_id = 1
    /\ http_exc = NoExc
    /\ response = NoResponse
    /\ calls = << Event("layout", 0, TRUE, 0, 0),
                  Event("openai", 1, TRUE, Len(extracted_questions),
                        Blank(extracted_questions)) >>
    /\ run = 1
    /\ scenario = NoScenario

FieldNext ==
    \/ Sanitize
    \/ \E commit_ok \in BOOLEAN : Store(commit_ok)
    \/ Finish
    \/ Respond

FieldSpec == FieldInit /\ [][FieldNext]_vars

\* ------------------------------ runs whose inputs are fixed ahead, repeated
MaxRuns == 2

\* A form field is absent, empty, blank or a padded text; a metadata key is
\* absent, a padded text or a number
FormValue(choice, key) ==
    CASE choice = "absent" -> None
      [] choice = "empty" -> S(<<>>)
      [] choice = "blank" -> S(<<SP>>)
      [] OTHER -> S(<<SP, "F", key>>)

MetaValue(choice, key) ==
    CASE choice = "absent" -> None
      [] choice = "text" -> S(<<"M", key, SP>>)
      [] OTHER -> I(5)

\* class_name, specialization and updated_by are supplied alike
Group(key) == IF key \in {"subject_name", "uploaded_by"} THEN key ELSE "optional"

Groups == {"subject_name", "uploaded_by", "optional"}

RichRequest(kind, form, meta) ==
    [ filename |-> <<"doc", ".pdf">>,
      metadata |->
        [ kind |-> kind,
          obj |-> IF kind = "object"
                  THEN [ key \in DOMAIN NoFields |-> MetaValue(meta[Group(key)], key) ]
                  ELSE NoFields ],
      subject_name |-> FormValue(form["subject_name"], "subject_name"),
      class_name |-> FormValue(form["optional"], "class_name"),
      specialization |-> FormValue(form["optional"], "specialization"),
      uploaded_by |-> FormValue(form["uploaded_by"], "uploaded_by"),
      updated_by |-> FormValue(form["optional"], "updated_by") ]

\* Every combination of form fields and metadata, and an upload that is no PDF
RichRequests ==
    { RichRequest(kind, form, meta) :
        kind \in {"none", "badjson", "nonobject", "object"},
        form \in [Groups -> {"absent", "empty", "blank", "text"}],
        meta \in [Groups -> {"absent", "text", "number"}] }
    \cup { Request(<<"doc", ".txt">>, NoMetadata, S(<<"Math">>), S(<<"u1">>)) }

\* The inputs of a run: the request, the kinds of the pages of the document
\* and the reply the generative service gives for a page with text.  Either
\* any request with a one-page document and a one-object reply, or the
\* accepted request with any document of pages with or without text and any
\* reply; or with an array between fence markers; or with a one-object
\* reply and any document, of no page or of pages of every kind.
Scenarios ==
    { [request |-> req, kinds |-> <<"text">>, reply |-> ArrayText(<<"{ok}">>)] :
        req \in RichRequests }
    \cup
    { [request |-> AcceptedRequest, kinds |-> kinds, reply |-> content] :
        kinds \in UNION { [1..n -> {"text", "blank"}] : n \in 1..MaxPages },
        content \in { ArrayText(ns) : ns \in NameSeqs }
                    \cup { BareFence \o ArrayText(<<"{essay}">>) \o ClosingFence }
                    \cup OtherReplies }
    \cup
    { [request |-> AcceptedRequest, kinds |-> kinds, reply |-> content] :
        kinds \in {<<"text">>, <<"blank", "text">>},
        content \in FencedReplies \cup UnterminatedReplies }
    \cup
    { [request |-> AcceptedRequest, kinds |-> kinds,
       reply |-> ArrayText(<<"{ok}">>)] :
        kinds \in UNION { [1..n -> MorePageKinds] : n \in 0..MaxPages } }

ScenarioInit ==
    /\ Start
    /\ client
    /\ openai_client
    /\ scenario \in Scenarios

\* The service takes the next request: the handler starts afresh with the
\* storage as the earlier requests left it
Restart ==
    /\ pc = "done"
    /\ run < MaxRuns
    /\ run' = run + 1
    /\ pc' = "idle"
    /\ filename' = <<>>
    /\ temp_dir' = "none"
    /\ background_tasks' = <<>>
    /\ attached_tasks' = <<>>
    /\ ctx' = NoFields
    /\ pages' = <<>>
    /\ total_pages' = 0
    /\ idx' = 0
    /\ pages_attempted' = 0
    /\ pages_skipped' = 0
    /\ total_questions' = 0
    /\ page_summaries' = <<>>
    /\ extracted_questions' = <<>>
    /\ sanitized_questions' = <<>>
    /\ http_exc' = NoExc
    /\ response' = NoResponse
    /\ calls' = <<>>
    /\ UNCHANGED << scenario, client, openai_client, db, pending, next_id >>

\* The same document and the same service responses at every run
ScenarioNext ==
    \/ Receive(scenario.request)
    \/ Layout(LayoutResult(scenario.kinds), TRUE)
    \/ SkipPage
    \/ AttemptPage
    \/ OpenAIReturns(TRUE, scenario.reply)
    \/ Sanitize
    \/ Store(TRUE)
    \/ Finish
    \/ Respond
    \/ Restart

ScenarioSpec == ScenarioInit /\ [][ScenarioNext]_vars

\* ------------------------------------------------------------- claims
RunRows == SelectSeq(db, LAMBDA row : row.id >= 1)

RECURSIVE SumExtracted(_)
SumExtracted(summaries) ==
    IF summaries = <<>> THEN 0
    ELSE Head(summaries).questions_extracted + SumExtracted(Tail(summaries))

RECURSIVE SumReturned(_)
SumReturned(events) ==
    IF events = <<>> THEN 0 ELSE Head(events).n + SumReturned(Tail(events))

PageFailures == { i \in 1..Len(calls) : calls[i].page >= 1 /\ ~calls[i].ok }

Answered == pc = "done"

HasText(i) == Strip(pages[i].content) # <<>>

\* C1: once a stage of a non-empty page has failed, the run is on its way to
\* an error response and no further stage of any page runs: the failed
\* stage stays the last entry of the log of stages, the page loop is never
\* re-entered, and the response the client gets is an error.
C1_AbortOnPageFailure ==
    \A i \in PageFailures :
        /\ i = Len(calls)
        /\ pc \in {"raised", "done"}
        /\ http_exc.status_code >= 400
        /\ Answered => (response.status = "error" /\ response.status_code >= 400)

\* a run that failed in the per-candidate checks of page 1 while page 2, which
\* has text, was never handed to any stage
C1_Witness ==
    /\ pc = "done"
    /\ Len(pages) = 2 /\ HasText(1) /\ HasText(2)
    /\ calls[Len(calls)] = Event("check", 1, FALSE, 0, 0)
    /\ response.status = "error"

\* C2: no step of a run removes or changes a committed row: the rows a run
\* committed for its earlier pages are still in storage, in place, whatever
\* happens afterwards (a later page failing, the rollback of its batch, the
\* response, the end of the session).
C2_CommittedRowsStay ==
    [][ /\ Len(db') >= Len(db)
        /\ \A i \in 1..Len(db) : db'[i] = db[i] ]_vars

\* a run whose page 1 was committed and whose page 2 failed at the commit
C2_Witness ==
    /\ pc = "done"
    /\ response.status = "error"
    /\ \E i \in 1..Len(calls) : calls[i] = Event("commit", 1, TRUE, 0, 0)
    /\ calls[Len(calls)] = Event("commit", 2, FALSE, 0, 0)
    /\ RunRows # <<>>

\* C3 (as claimed): when a request that created a scratch directory is over,
\* the directory has been removed.
C3_ScratchRemovedAtEnd ==
    (pc = "done" /\ temp_dir # "none") => temp_dir = "removed"

\* the same as a liveness statement: a scratch directory that exists is
\* eventually removed
C3_ScratchEventuallyRemoved == (temp_dir = "exists") ~> (temp_dir = "removed")

\* C4: a page batch is in storage whole or not at all.  The rows the run has
\* committed are exactly the batches of the pages it recorded as processed,
\* each in full; a batch whose commit failed or whose i-th candidate was
\* rejected contributes no row, the commit failure is reported as a
\* persistence error with the session rolled back, and nothing stays
\* pending once the session is closed.
C4_BatchAllOrNothing ==
    /\ Len(RunRows) = SumExtracted(page_summaries)
    /\ \A i \in 1..Len(calls) :
          (calls[i].op = "commit" /\ ~calls[i].ok) =>
              /\ http_exc = [status_code |-> 500,
                             detail |-> "Failed to persist questions to database."]
              /\ pending = <<>>
    /\ pc = "done" => pending = <<>>

\* a finished run whose batch was rejected at its second candidate, the row
\* of the first having been added to the session
C4_Witness ==
    /\ pc = "done"
    /\ calls # <<>>
    /\ calls[Len(calls)].op = "check" /\ ~calls[Len(calls)].ok
    /\ next_id > 1 + SumExtracted(page_summaries)

\* C5 (as claimed): when the run has failed on page k, the per-page summary
\* list holds an entry for page k with status `failed` and an error text.
C5_FailedPageRecorded ==
    \A i \in PageFailures :
        \E j \in 1..Len(page_summaries) :
            /\ page_summaries[j].page_number = pages[calls[i].page].page_number
            /\ page_summaries[j].status = "failed"
            /\ page_summaries[j].error # ""

\* C6: a success response means that every page with text went through the
\* generative step, the sanitizing loop, the per-candidate checks and (when
\* it had candidates) the commit without a failure, and that the summary
\* lists it as `processed` or `processed_no_questions`.
C6_SuccessMeansAllProcessed ==
    response.status = "success" =>
        /\ PageFailures = {}
        /\ Len(response.summary.pages) = Len(pages)
        /\ \A i \in 1..Len(pages) :
              HasText(i) =>
                /\ response.summary.pages[i].page_number = pages[i].page_number
                /\ response.summary.pages[i].status
                     \in {"processed", "processed_no_questions"}
                /\ \A op \in {"openai", "sanitize", "check"} :
                      \E c \in 1..Len(calls) :
                          calls[c].op = op /\ calls[c].page = i /\ calls[c].ok
                /\ response.summary.pages[i].questions_extracted > 0 =>
                      \E c \in 1..Len(calls) :
                          calls[c] = Event("commit", i, TRUE, 0, 0)

\* a success over two pages with text, one with questions and one without
C6_Witness ==
    /\ pc = "done"
    /\ response.status = "success"
    /\ Len(pages) = 2 /\ HasText(1) /\ HasText(2)
    /\ response.summary.pages[1].status = "processed"
    /\ response.summary.pages[2].status = "processed_no_questions"

\* C7: in every success summary the skipped pages and the pages with content
\* add up to the pages detected.
C7_PageCountsAddUp ==
    response.status = "success" =>
        response.summary.pages_skipped + response.summary.pages_with_content
            = response.summary.total_pages_detected

\* a success summary with a skipped page and a page with content
C7_Witness ==
    /\ response.status = "success"
    /\ response.summary.pages_skipped = 1
    /\ response.summary.pages_with_content = 1

\* C8: a run over N pages that all have text, in which every generative
\* reply is an array of well-formed candidates (each with a question text)
\* and no service call fails, ends in success with pages_with_content = N,
\* pages_skipped = 0 and questions_stored equal to the number of candidates
\* returned over all pages, which is the number of rows the run added.
C8_AllStoredWhenWellFormed ==
    ( /\ pc = "done"
      /\ pages # <<>>
      /\ \A i \in 1..Len(pages) : HasText(i)
      /\ \A c \in 1..Len(calls) :
            /\ calls[c].op \in {"openai", "commit", "layout"} => calls[c].ok
            /\ calls[c].bad = 0 )
    => /\ response.status = "success"
       /\ response.summary.total_pages_detected = Len(pages)
       /\ response.summary.pages_with_content = Len(pages)
       /\ response.summary.pages_skipped = 0
       /\ response.summary.questions_stored = SumReturned(calls)
       /\ Len(RunRows) = SumReturned(calls)

\* a success over two pages with text, two candidates each, one of them
\* without a lesson_title
C8_Witness ==
    /\ pc = "done"
    /\ response.status = "success"
    /\ response.summary.pages_with_content = 2
    /\ response.summary.questions_stored = 4
    /\ Len(RunRows) = 4
    /\ \E i \in 1..Len(db) : db[i].id >= 1 /\ db[i].lesson_title = ctx.subject_name

IsEnumOrAbsent(value, allowed) ==
    value = None \/ (value.t = "str" /\ value.s \in allowed)

\* C9 (as claimed): every stored row has a question_type of the enumeration
\* or none, and a question_difficulty of the enumeration or none.
C9_EnumOrAbsent ==
    \A i \in 1..Len(db) :
        /\ IsEnumOrAbsent(db[i].question_type, allowed_question_types)
        /\ IsEnumOrAbsent(db[i].question_difficulty, allowed_difficulties)

\* C10: every stored row has a question text that is a non-empty string
\* without surrounding whitespace, and a non-empty lesson_title.
C10_QuestionAndLessonNonEmpty ==
    \A i \in 1..Len(db) :
        /\ db[i].question.t = "str"
        /\ db[i].question.s # <<>>
        /\ Strip(db[i].question.s) = db[i].question.s
        /\ db[i].lesson_title.t = "str"
        /\ db[i].lesson_title.s # <<>>

\* rows stored from a candidate with a padded question and lesson_title and
\* from one whose question is a number and whose lesson_title is blank
C10_Witness ==
    /\ \E i \in 1..Len(db) :
          /\ db[i].id >= 1
          /\ db[i].question = S(<<"Q">>)
          /\ db[i].lesson_title = S(<<"L">>)
    /\ \E i \in 1..Len(db) :
          /\ db[i].id >= 1
          /\ db[i].question = S(<<"0">>)
          /\ db[i].lesson_title = ctx.subject_name

\* A step that commits the batch of the page: the k-th row it stores comes
\* from the k-th candidate of the reply
Committed == pc = "store" /\ Len(db') = Len(db) + Len(extracted_questions)

FieldValue(row, field) == IF field \in DOMAIN row THEN row[field] ELSE None

OutsideEnumeration(raw, allowed) == ~(raw.t = "str" /\ Strip(raw.s) \in allowed)

\* C11 (as claimed): a candidate whose question_type is missing or outside
\* the enumeration never makes its page fail (the persistence step fails only
\* for a missing question text or a failed commit), and when the batch is
\* committed its row holds no question_type and it is counted in the
\* questions stored.
C11_UnknownTypeStoredAbsent ==
    [][ pc = "store" =>
          /\ http_exc'.detail \in
                { "", "Missing question text for database insert.",
                  "Failed to persist questions to database." }
          /\ Committed =>
                /\ total_questions' = total_questions + Len(extracted_questions)
                /\ \A k \in 1..Len(extracted_questions) :
                      OutsideEnumeration(extracted_questions[k].question_type,
                                         allowed_question_types)
                        => db'[Len(db) + k].question_type = None ]_vars

\* C12: a candidate is never rejected for its lesson_title, and when the
\* batch is committed the row of a candidate whose lesson_title is missing,
\* null or blank holds the subject name the request resolved to, the row of
\* any other candidate its own lesson_title, trimmed.
C12_LessonTitleDefaulted ==
    [][ pc = "store" =>
          /\ http_exc'.detail # "Missing lesson name for database insert."
          /\ Committed =>
                \A k \in 1..Len(extracted_questions) :
                    LET raw == extracted_questions[k].lesson_title
                        row == db'[Len(db) + k]
                    IN  IF raw = None \/ StrStrip(raw) = <<>>
                        THEN row.lesson_title = S(<<"Math">>)
                        ELSE row.lesson_title = S(StrStrip(raw)) ]_vars

\* a committed batch of two, the first candidate with a blank lesson_title
\* and the second with a padded one
C12_Witness ==
    /\ pc = "done"
    /\ Len(extracted_questions) = 2
    /\ extracted_questions[1].lesson_title = S(<<SP>>)
    /\ extracted_questions[2].lesson_title = S(<<"L", SP>>)
    /\ Len(db) = 3
    /\ db[2].lesson_title = S(<<"Math">>)
    /\ db[3].lesson_title = S(<<"L">>)

\* C13 (as claimed): when the batch is committed, the row of a candidate
\* holds its option, trimmed, in the same option field when the option is
\* non-empty after trimming, and holds the field as absent otherwise.
C13_OptionsStoredTrimmed ==
    [][ Committed =>
          \A k \in 1..Len(extracted_questions) :
              LET raw == extracted_questions[k].option1
                  stored == FieldValue(db'[Len(db) + k], "option1")
              IN  IF raw.t = "str" /\ Strip(raw.s) # <<>>
                  THEN stored = S(Strip(raw.s))
                  ELSE stored = None ]_vars

\* C14: a page without text (empty once trimmed) is only recorded: the step
\* taken for it appends the summary entry `skipped_empty_content` with no
\* question, counts the page as skipped and not as a page with content,
\* calls no service, writes nothing to storage or to the session, and leaves
\* the loop at the next page; no stage is ever logged for such a page.
C14_EmptyPageSkipped ==
    [][ /\ (pc = "loop" /\ idx <= Len(pages) /\ ~HasText(idx)) =>
              /\ page_summaries' =
                   Append(page_summaries,
                          PageSummary(pages[idx].page_number, 0,
                                      "skipped_empty_content", ""))
              /\ pages_skipped' = pages_skipped + 1
              /\ pages_attempted' = pages_attempted
              /\ total_questions' = total_questions
              /\ calls' = calls
              /\ db' = db
              /\ pending' = pending
              /\ pc' = "loop"
              /\ idx' = idx + 1
        /\ \A c \in 1..Len(calls') :
              calls'[c].page >= 1 => Strip(pages'[calls'[c].page].content) # <<>>
      ]_vars

\* a success over a page without text followed by a page with questions
C14_Witness ==
    /\ pc = "done"
    /\ response.status = "success"
    /\ Len(pages) = 2 /\ ~HasText(1) /\ HasText(2)
    /\ response.summary.pages[1] =
         PageSummary(pages[1].page_number, 0, "skipped_empty_content", "")
    /\ response.summary.pages[2].status = "processed"
    /\ response.summary.pages_skipped = 1
    /\ response.summary.pages_with_content = 1

\* What the claims take a field of the request to be: the form field when
\* it is supplied (sent and not empty), otherwise the value of the key in
\* the metadata object (none when there is no such object or key)
Supplied(req, key) ==
    IF FormArgument(req[key]) # None THEN req[key]
    ELSE IF req.metadata.kind = "object" THEN req.metadata.obj[key]
    ELSE None

\* the request is refused for its content: no PDF, malformed metadata, or no
\* subject_name or uploaded_by once resolved
RequestInvalid(req) ==
    \/ ~IsPdfName(req.filename)
    \/ req.metadata.kind = "badjson"
    \/ (req.metadata.kind = "nonobject"
        /\ \E key \in DOMAIN NoFields : FormArgument(req[key]) = None)
    \/ StrOrNone(Supplied(req, "subject_name")) = None
    \/ StrOrNone(Supplied(req, "uploaded_by")) = None

\* C15 (as claimed): a request that has a subject_name and supplies
\* uploaded_by neither as a form field nor in its metadata is not refused
\* when a default uploader is configured: it never ends in the error
\* `uploaded_by is required.`, and the rows it stores carry the default.
C15_DefaultUploaderUsed ==
    LET req == scenario.request
    IN  ( /\ scenario # NoScenario
          /\ IsPdfName(req.filename)
          /\ req.metadata.kind \in {"none", "object"}
          /\ StrOrNone(Supplied(req, "subject_name")) # None
          /\ Supplied(req, "uploaded_by") = None
          /\ TextOrNone(default_uploaded_by) # None )
        => /\ http_exc.status_code # 400
           /\ pc = "done" => /\ response.status = "success"
                             /\ RunRows # <<>>
           /\ \A i \in 1..Len(RunRows) :
                 RunRows[i].uploaded_by = TextOrNone(default_uploaded_by)

\* C16 (as claimed): once the request is received, a run whose subject_name
\* or uploaded_by is empty (as supplied: form first, metadata otherwise) has
\* failed validation, and any other run goes on to the page processing (it
\* raises nothing before its first service call) with, for each of the five
\* fields, the supplied value as the value it uses.
C16_FormOverridesMetadata ==
    LET req == scenario.request
    IN  ( /\ scenario # NoScenario
          /\ pc # "idle"
          /\ IsPdfName(req.filename)
          /\ req.metadata.kind # "badjson" )
        => IF \/ TextOrNone(Supplied(req, "subject_name")) = None
              \/ TextOrNone(Supplied(req, "uploaded_by")) = None
           THEN http_exc.status_code = 400
           ELSE /\ calls = <<>> => http_exc = NoExc
                /\ \A key \in DOMAIN NoFields :
                      ctx[key] = TextOrNone(Supplied(req, key))

\* C17: a request that is refused for its content is refused before any
\* page processing: no stage of the pipeline is logged, no page was read, and
\* storage and the session hold what they held before, at every point of the
\* run and of its repetition; the run only ever is idle, raised or done, and
\* ends with an error.
C17_ValidationBeforeProcessing ==
    (scenario # NoScenario /\ RequestInvalid(scenario.request)) =>
        /\ calls = <<>>
        /\ pages = <<>>
        /\ db = <<OldRow>>
        /\ pending = <<>>
        /\ next_id = 1
        /\ pc \in {"idle", "raised", "done"}
        /\ pc # "idle" => http_exc.status_code >= 400

\* a request without uploaded_by, refused after the scratch directory was made
C17_Witness ==
    /\ pc = "done"
    /\ scenario.request.uploaded_by = None
    /\ scenario.request.metadata.kind = "none"
    /\ scenario.request.subject_name # None
    /\ response.status_code = 400
    /\ response.detail = "uploaded_by is required."
    /\ temp_dir = "exists"
    /\ calls = <<>>

\* C18 (as claimed): a request with a PDF whose metadata is no valid JSON, or
\* valid JSON that is no object, ends with status 400.
C18_MalformedMetadataIs400 ==
    ( /\ scenario # NoScenario
      /\ IsPdfName(scenario.request.filename)
      /\ scenario.request.metadata.kind \in {"badjson", "nonobject"}
      /\ pc = "done" )
    => response.status_code = 400

SameButId(row, other) == [row EXCEPT !.id = 0] = [other EXCEPT !.id = 0]

\* C19: when the same request has been run on the same document with the
\* same service responses `run` times, storage holds, after the row that was
\* there before, `run` blocks of rows of equal length: each later block
\* repeats the first row for row but for the ids, which are all different;
\* the first block is where and what it was, and a block has as many rows
\* as the run reports to have stored.
C19_RerunAddsIndependentRows ==
    pc = "done" =>
        LET n == (Len(db) - 1) \div run
        IN  /\ Len(db) = 1 + run * n
            /\ db[1] = OldRow
            /\ \A r \in 1..(run - 1), i \in 1..n :
                  SameButId(db[1 + i], db[1 + r * n + i])
            /\ \A i \in 1..Len(db), j \in 1..Len(db) :
                  i # j => db[i].id # db[j].id
            /\ \A i \in 1..n : db[1 + i].id = i
            /\ response.status = "success" => n = response.summary.questions_stored

\* two successful runs that stored two rows each
C19_Witness ==
    /\ pc = "done"
    /\ run = 2
    /\ response.status = "success"
    /\ response.summary.questions_stored = 2
    /\ Len(db) = 5
    /\ SameButId(db[2], db[4])
    /\ SameButId(db[3], db[5])

\* the reply is no array, or an array with an element that is no object
MalformedReply(content) ==
    \/ JsonKind(StripFence(content)) # "list"
    \/ \E i \in 1..Len(NoSpace(StripFence(content))) :
          /\ NoSpace(StripFence(content))[i] \notin {"[", "]", ","}
          /\ NoSpace(StripFence(content))[i] \notin ObjectNames

\* C20: when the reply given for the pages is no array of objects, every
\* page that was handed to the generative step failed there with an error
\* of status 500 and a `failed` summary entry, no candidate was sanitized or
\* checked, and no row of any run is in storage or in the session.
C20_MalformedReplyFailsPage ==
    (scenario # NoScenario /\ MalformedReply(scenario.reply)) =>
        /\ db = <<OldRow>>
        /\ pending = <<>>
        /\ \A c \in 1..Len(calls) :
              /\ calls[c].op \in {"layout", "openai"}
              /\ calls[c].op = "openai" =>
                    /\ ~calls[c].ok
                    /\ c = Len(calls)
                    /\ pc \in {"raised", "done"}
                    /\ http_exc.status_code = 500
                    /\ page_summaries[Len(page_summaries)].status = "failed"

\* a run whose reply was an array of an object and a number
C20_Witness ==
    /\ pc = "done"
    /\ scenario.reply = <<"[", "{ok}", ",", "7", "]">>
    /\ calls # <<>>
    /\ calls[Len(calls)] = Event("openai", 1, FALSE, 0, 0)
    /\ response.status_code = 500
    /\ response.detail = "OpenAI extraction failed: Each question entry must be a JSON object."

\* the objects a reply text holds, in its order
ObjectsIn(content) == SelectSeq(content, LAMBDA tok : tok \in ObjectNames)

CandidatesOf(names) == [ i \in 1..Len(names) |-> CandidateOf[names[i]] ]

\* C21: when the reply is an array of objects between an opening fence
\* marker (tagged `json` or bare) and a closing fence marker, the text left
\* after the fence is stripped is exactly the array, the generative step
\* never fails on it, and the candidates it returns for a page are the
\* objects of the array, all of them and in the order of the array.
C21_FencedArrayParsed ==
    \A opening \in OpeningFences, closing \in ClosingFences :
        LET ns == ObjectsIn(scenario.reply)
        IN  scenario.reply = Fenced(opening, ns, closing) =>
                /\ StripFence(scenario.reply) = ArrayText(ns)
                /\ \A c \in 1..Len(calls) :
                      calls[c].op = "openai" =>
                          /\ calls[c].ok
                          /\ calls[c].n = Len(ns)
                /\ pc \in {"sanitize", "store"} =>
                      /\ extracted_questions = CandidatesOf(ns)
                      /\ extracted_questions =
                            ParseQuestions(ArrayText(ns)).questions

\* the reply was a bare fence around an array of two objects, and the page
\* got both as its candidates
C21_Witness ==
    /\ pc = "store"
    /\ scenario.reply = Fenced(BareFence, <<"{ok}", "{essay}">>, ClosingFence)
    /\ extracted_questions = <<CandidateOf["{ok}"], CandidateOf["{essay}"]>>
    /\ calls[2] = Event("openai", 1, TRUE, 2, 0)

\* the texts an exception of the pipeline carries
Causes ==
    { "OpenAI client not configured.", "OpenAI extraction failed: APIError",
      "JSONDecodeError", "APIError", "Expected a list of questions in JSON array.",
      "Each question entry must be a JSON object.",
      "Missing question text for database insert.",
      "Missing lesson name for database insert.",
      "Failed to persist questions to database." }

\* the detail is a text that names the page
NamesPage(detail, page_number) ==
    \E cause \in Causes : detail = PageDetail(page_number, cause)

\* C22 (as claimed): when the run has failed in a stage of a page, the error
\* the client receives names the number of that page.
C22_ErrorNamesPage ==
    \A i \in PageFailures :
        Answered => NamesPage(response.detail, pages[calls[i].page].page_number)

\* the page number the service reported for its i-th page (its position
\* when it reported none)
ReportedNumber(result, i) ==
    IF result.pages[i].page_number = Missing THEN I(i) ELSE result.pages[i].page_number

\* C23: the layout step returns one entry per page of the service's result,
\* in its order and with its page numbers (none and gaps included); the
\* loop takes the pages in that order (the summary entries written so far
\* are those of the first pages, one each, and the stages logged never go
\* back to an earlier page); the summary of a success lists every page of
\* the service's result once, in the service's order.
C23_PageOrderKept ==
    LET result == LayoutResult(scenario.kinds)
    IN  (scenario # NoScenario /\ pages # <<>>) =>
            /\ Len(pages) = Len(result.pages)
            /\ \A i \in 1..Len(pages) :
                  pages[i].page_number = ReportedNumber(result, i)
            /\ Len(page_summaries) <= Len(pages)
            /\ \A j \in 1..Len(page_summaries) :
                  page_summaries[j].page_number = ReportedNumber(result, j)
            /\ pc = "loop" => Len(page_summaries) = idx - 1
            /\ \A c \in 1..Len(calls), d \in 1..Len(calls) :
                  (c < d /\ calls[c].page >= 1) => calls[c].page <= calls[d].page
            /\ response.status = "success" =>
                  /\ Len(response.summary.pages) = Len(result.pages)
                  /\ \A j \in 1..Len(result.pages) :
                        response.summary.pages[j].page_number
                            = ReportedNumber(result, j)

\* a success over a page numbered 2 followed by a page without number, both
\* with text found through the fallbacks
C23_Witness ==
    /\ pc = "done"
    /\ response.status = "success"
    /\ scenario.kinds = <<"spans", "both">>
    /\ Len(response.summary.pages) = 2
    /\ response.summary.pages[1].page_number = I(2)
    /\ response.summary.pages[2].page_number = None
    /\ response.summary.pages[2].status = "processed"

\* C24: when the batch of a page is committed, every row it stores holds as
\* page_number the decimal text of the number the layout step gave the page,
\* or none when the page has no number, and never the page_number the
\* candidate carried.
C24_PageNumberFromLayout ==
    [][ Committed =>
          \A k \in 1..Len(extracted_questions) :
              LET row == db'[Len(db) + k]
                  page_number == pages[idx].page_number
              IN  /\ row.page_number =
                        IF page_number = None
                        THEN None
                        ELSE S(<<ToString(page_number.n)>>)
                  /\ row.page_number # extracted_questions[k].page_number ]_vars

\* rows stored for the page numbered 2 and for the page without number, from
\* candidates that carried the page_number "9"
C24_Witness ==
    /\ pc = "done"
    /\ Len(pages) = 2
    /\ pages[1].page_number = I(2) /\ pages[2].page_number = None
    /\ extracted_questions # <<>>
    /\ extracted_questions[1].page_number = S(<<"9">>)
    /\ \E i \in 1..Len(db) : db[i].id >= 1 /\ db[i].page_number = S(<<"2">>)
    /\ \E i \in 1..Len(db) : db[i].id >= 1 /\ db[i].page_number = None

\* C25: the stages of a run are logged in the order layout, then for each
\* page with text in turn: generative call, sanitization, per-candidate
\* checks, commit (when the batch is not empty).  The layout call is the
\* first entry and the only one of its kind; a stage of a page directly
\* follows the successful stage before it on the same page; the generative
\* call of a page directly follows the layout call or the successful last
\* stage of an earlier page (its commit, or its checks when its batch was
\* empty); a run that has pages made exactly one layout call.
C25_StagesInOrder ==
    /\ \A c \in 1..Len(calls) :
          LET e == calls[c]
              before == calls[c - 1]
          IN  /\ e.op = "layout" <=> c = 1
              /\ c > 1 =>
                    /\ before.ok
                    /\ e.op = "openai" =>
                          \/ before.op = "layout"
                          \/ /\ before.op = "commit"
                             /\ before.page < e.page
                          \/ /\ before.op = "check"
                             /\ before.page < e.page
                             /\ calls[c - 3] = Event("openai", before.page, TRUE, 0, 0)
                    /\ e.op = "sanitize" =>
                          before.op = "openai" /\ before.page = e.page
                    /\ e.op = "check" =>
                          before.op = "sanitize" /\ before.page = e.page
                    /\ e.op = "commit" =>
                          /\ before.op = "check" /\ before.page = e.page
                          /\ calls[c - 2].op = "sanitize"
                          /\ calls[c - 3].op = "openai" /\ calls[c - 3].n > 0
    /\ pages # <<>> => (calls # <<>> /\ calls[1] = Event("layout", 0, TRUE, 0, 0))
    /\ pc \in {"sanitize", "store"} =>
          (calls[Len(calls)].page = idx /\ calls[Len(calls)].ok)

\* a success over two pages with text: all four stages of page 1, then all
\* four of page 2, after the one layout call
C25_Witness ==
    /\ pc = "done"
    /\ response.status = "success"
    /\ Len(calls) = 9
    /\ calls[1].op = "layout"
    /\ \A k \in 0..1 :
          /\ calls[2 + 4 * k].op = "openai" /\ calls[2 + 4 * k].page = k + 1
          /\ calls[3 + 4 * k].op = "sanitize" /\ calls[3 + 4 * k].page = k + 1
          /\ calls[4 + 4 * k].op = "check" /\ calls[4 + 4 * k].page = k + 1
          /\ calls[5 + 4 * k].op = "commit" /\ calls[5 + 4 * k].page = k + 1

\* the three sources of the text of the i-th page of a layout result: its
\* direct text, the full text at its spans, the paragraphs located on it
DirectText(result, i) ==
    IF result.pages[i].content.t = "str" THEN result.pages[i].content.s ELSE <<>>

SpanText(result, i) == SpanFragments(result.pages[i].spans, result.content)

ParagraphText(result, i) ==
    JoinParagraphs(ParagraphsOfPage(result.paragraphs, ReportedNumber(result, i)))

ChosenText(result, i) ==
    IF DirectText(result, i) # <<>> THEN DirectText(result, i)
    ELSE IF SpanText(result, i) # <<>> THEN SpanText(result, i)
    ELSE ParagraphText(result, i)

\* C26: the text the layout step returns for each page of the service's
\* result is, trimmed, the first of the three sources that yields something:
\* the direct text, else the full text at the spans, else the paragraphs of
\* the page; when none yields anything the text is empty, and the page is
\* returned all the same and only skipped by the loop (no error is raised
\* for it).
C26_FallbackChain ==
    LET result == LayoutResult(scenario.kinds)
    IN  (scenario # NoScenario /\ pages # <<>>) =>
            \A i \in 1..Len(result.pages) :
                /\ pages[i].content = Strip(ChosenText(result, i))
                /\ ( /\ DirectText(result, i) = <<>>
                     /\ SpanText(result, i) = <<>>
                     /\ ParagraphText(result, i) = <<>> )
                   => /\ pages[i].content = <<>>
                      /\ calls[1] = Event("layout", 0, TRUE, 0, 0)
                      /\ Len(page_summaries) >= i =>
                            page_summaries[i].status = "skipped_empty_content"

\* a document whose first page has an empty direct text and two spans, and
\* whose second page has spans without offset and no paragraph: the first
\* got the full text at the spans (and not the paragraph of the page), the
\* second got no text and was skipped
C26_Witness ==
    /\ pc = "done"
    /\ scenario.kinds = <<"emptytext", "nospan">>
    /\ pages[1].content = <<"U", "T">>
    /\ ParagraphText(LayoutResult(scenario.kinds), 1) = <<"T">>
    /\ pages[2].content = <<>>
    /\ response.status = "success"
    /\ response.summary.pages[2].status = "skipped_empty_content"

\* C27: when the layout step returns no page for an accepted request, the
\* run has failed right after the layout call with the error `did not return
\* any pages` (status 500): the layout call is the only stage logged, no
\* summary entry was written, storage and the session hold what they held,
\* and the client gets that error and no success summary.
C27_NoPagesFails ==
    ( /\ scenario # NoScenario
      /\ ~RequestInvalid(scenario.request)
      /\ scenario.kinds = <<>>
      /\ pc \notin {"idle", "layout"} )
    => /\ pc \in {"raised", "done"}
       /\ http_exc = [status_code |-> 500,
                      detail |-> "Azure Document Intelligence did not return any pages."]
       /\ calls = <<Event("layout", 0, TRUE, 0, 0)>>
       /\ page_summaries = <<>>
       /\ db = <<OldRow>>
       /\ pending = <<>>
       /\ response.status # "success"
       /\ response.summary = NoSummary
       /\ pc = "done" =>
             /\ response.status_code = 500
             /\ response.detail = http_exc.detail

\* the run over a document without pages is over, with the error
C27_Witness ==
    /\ pc = "done"
    /\ scenario # NoScenario
    /\ scenario.kinds = <<>>
    /\ calls = <<Event("layout", 0, TRUE, 0, 0)>>
    /\ response.status = "error"
    /\ response.detail = "Azure Document Intelligence did not return any pages."

\* C28: when the reply is a complete array after an opening fence marker
\* (tagged `json` or bare) and no closing marker follows it, the text handed
\* to the parser is not the array: it has lost the end of the array, closing
\* bracket included, and is no JSON.  Every page handed to the generative
\* step then fails there with status 500 and a parse error, and no row is
\* stored.
C28_UnterminatedFenceCutsArray ==
    \A opening \in OpeningFences, tail \in {<<>>, <<NL>>} :
        scenario.reply = Unterminated(opening, ObjectsIn(scenario.reply)) \o tail =>
            LET result_text == StripFence(scenario.reply)
                array == ArrayText(ObjectsIn(scenario.reply))
            IN  /\ result_text # array
                /\ Len(result_text) < Len(array)
                /\ \A i \in 1..Len(result_text) :
                      result_text[i] \in {array[i], BROKEN} /\ result_text[i] # "]"
                /\ JsonKind(result_text) = "invalid"
                /\ db = <<OldRow>>
                /\ pending = <<>>
                /\ \A c \in 1..Len(calls) :
                      calls[c].op = "openai" =>
                          /\ ~calls[c].ok
                          /\ http_exc =
                               [status_code |-> 500,
                                detail |-> "OpenAI extraction failed: JSONDecodeError"]
                          /\ page_summaries[Len(page_summaries)].status = "failed"

\* the reply was a bare opening marker and an array of two objects, and the
\* page failed at the parser
C28_Witness ==
    /\ pc = "done"
    /\ scenario.reply = Unterminated(BareFence, <<"{ok}", "{essay}">>)
    /\ StripFence(scenario.reply) = <<"[", "{ok}", ",", BROKEN>>
    /\ calls[Len(calls)] = Event("openai", 1, FALSE, 0, 0)
    /\ response.status_code = 500
    /\ response.detail = "OpenAI extraction failed: JSONDecodeError"

\* the key has a non-empty text in the metadata object of the request
InMetadata(req, key) ==
    /\ req.metadata.kind = "object"
    /\ req.metadata.obj[key].t = "str"
    /\ Strip(req.metadata.obj[key].s) # <<>>

\* the form field of the key is sent and is empty or whitespace only
BlankForm(req, key) == req[key] # None /\ Strip(req[key].s) = <<>>

\* the form field of the key is sent and is whitespace only, not empty
WhitespaceForm(req, key) == BlankForm(req, key) /\ req[key].s # <<>>

RequiredDetail(key) ==
    IF key = "subject_name" THEN "subject_name is required."
    ELSE "uploaded_by is required."

\* C29 (as claimed): once a request is received whose subject_name or
\* uploaded_by form field is blank (empty or whitespace only) while its
\* metadata holds a non-empty value for the key, the request is refused with
\* status 400 as missing a required field (that field, or subject_name
\* before it), and nothing is processed.
C29_BlankFormMasksMetadata ==
    \A key \in {"subject_name", "uploaded_by"} :
        ( /\ scenario # NoScenario
          /\ pc # "idle"
          /\ BlankForm(scenario.request, key)
          /\ InMetadata(scenario.request, key) )
        => /\ http_exc.status_code = 400
           /\ http_exc.detail \in {RequiredDetail(key), RequiredDetail("subject_name")}
           /\ calls = <<>>

\* C29 (amended): a form field that is sent as whitespace only masks the
\* metadata value of its key: for each of the five fields the request then
\* uses no value, whatever the metadata holds, and a request whose
\* subject_name or uploaded_by form field is whitespace only is refused
\* with status 400 as missing a required field (that field, or subject_name
\* before it) before anything is processed.  A form field that is sent
\* empty masks nothing: the handler gets it as not sent, and a request that
\* goes on to processing uses the metadata value of the key.
C29_WhitespaceFormMasksMetadata ==
    LET req == scenario.request
    IN  (scenario # NoScenario /\ pc # "idle" /\ IsPdfName(req.filename)) =>
            /\ \A key \in {"subject_name", "uploaded_by"} :
                  (WhitespaceForm(req, key) /\ InMetadata(req, key)) =>
                      /\ http_exc.status_code = 400
                      /\ http_exc.detail
                            \in {RequiredDetail(key), RequiredDetail("subject_name")}
                      /\ key = "subject_name" =>
                            http_exc.detail = RequiredDetail("subject_name")
                      /\ calls = <<>>
                      /\ pc \in {"raised", "done"}
            /\ \A key \in DOMAIN NoFields :
                  /\ WhitespaceForm(req, key) => ctx[key] = None
                  /\ ( /\ req[key] = S(<<>>)
                       /\ InMetadata(req, key)
                       /\ pc \notin {"raised", "done"} \/ calls # <<>> )
                     => ctx[key] = S(Strip(req.metadata.obj[key].s))

\* a refused request whose uploaded_by form field is whitespace only while
\* its metadata names an uploader, and whose subject_name form field is
\* empty while its metadata names a subject (which is used)
C29_Witness ==
    /\ pc = "done"
    /\ scenario.request.uploaded_by = S(<<SP>>)
    /\ scenario.request.subject_name = S(<<>>)
    /\ InMetadata(scenario.request, "uploaded_by")
    /\ InMetadata(scenario.request, "subject_name")
    /\ response.status_code = 400
    /\ response.detail = "uploaded_by is required."
    /\ calls = <<>>

AllPagesEmpty == pages # <<>> /\ \A i \in 1..Len(pages) : ~HasText(i)

\* C30: a run whose layout step returned pages that are all without text
\* raises nothing, logs no stage but the layout call and writes nothing to
\* storage or to the session, whether the generative service is configured
\* or not; it ends in a success whose summary counts no page with content,
\* no question stored and every page as skipped.
C30_AllEmptySucceeds ==
    AllPagesEmpty =>
        /\ http_exc = NoExc
        /\ pc \notin {"openai", "sanitize", "store", "raised"}
        /\ calls = <<Event("layout", 0, TRUE, 0, 0)>>
        /\ db = <<OldRow>>
        /\ pending = <<>>
        /\ next_id = 1
        /\ pc = "done" =>
              /\ response.status_code = 200
              /\ response.status = "success"
              /\ response.summary.pages_with_content = 0
              /\ response.summary.questions_stored = 0
              /\ response.summary.pages_skipped = Len(pages)
              /\ response.summary.total_pages_detected = Len(pages)
              /\ \A i \in 1..Len(pages) :
                    response.summary.pages[i].status = "skipped_empty_content"

\* a success over two pages without text while the generative service is
\* not configured
C30_Witness ==
    /\ pc = "done"
    /\ ~openai_client
    /\ Len(pages) = 2
    /\ AllPagesEmpty
    /\ response.status = "success"
    /\ response.summary.pages_skipped = 2
    /\ response.summary.pages_with_content = 0

====
